---- MODULE Spec2Model ----
(***************************************************************************)
(* Lazarus: the versioned draft store (src/src/utils/storage.js) and the   *)
(* background worker that feeds it through per-field throttled savers      *)
(* (src/unnamed/part_000, the service worker).                             *)
(*                                                                         *)
(* Strings are sequences of one-character strings, so that ids, field keys *)
(* and the edit distance are computed character by character.              *)
(***************************************************************************)
EXTENDS Integers, Sequences, FiniteSets

VARIABLES
    blob,            \* chrome.storage.local['lazarus_data'] (absent reads as {})
    throttledSavers, \* Map fieldKey -> lodash throttle closure state
    tasks,           \* async calls in flight, each suspended at one await
    now,             \* Date.now()
    nsub,            \* INPUT_CAPTURED messages handled so far
    ncalls,          \* storage calls made from outside processInput so far
    lastSubmit,      \* history: fieldKey -> last payload handed to the throttled saver
    ran,             \* history: fieldKey -> the runs of processInput: seq and start time
    lastOp,          \* history: the blob write (or no-op return) that happened last
    errorLog         \* console.error: seq of the payloads whose run logged an error

vars == <<blob, throttledSavers, tasks, now, nsub, ncalls, lastSubmit, ran, lastOp,
          errorLog>>

-----------------------------------------------------------------------------
(* Program constants *)

MAX_STORAGE_BYTES == 5 * 1024 * 1024
SAFETY_MARGIN_PERCENT == 90
MAX_VERSIONS_PER_FIELD == 10
MAX_EVICTED == 10
THROTTLE_MS == 1000
SIGNIFICANT_CHANGE_THRESHOLD == 10

(* Bounds of the model *)

MaxTicks == 2       \* clock advances
MaxSubmits == 3     \* messages handled
MaxCalls == 2       \* storage calls from outside processInput

TickMs == THROTTLE_MS \div 2
StartMs == 40 * TickMs   \* clock reading when the worker starts

-----------------------------------------------------------------------------
(* Strings *)

Str(n, c) == [i \in 1..n |-> c]
Bar == <<"|">>
Colons == <<":", ":">>
Undefined == <<"u", "n", "d", "e", "f", "i", "n", "e", "d">>

Digits == <<"0", "1", "2", "3", "4", "5", "6", "7", "8", "9">>
DigitVal(c) == (CHOOSE i \in 1..10 : Digits[i] = c) - 1
IsDigit(c) == \E i \in 1..10 : Digits[i] = c

RECURSIVE NumStr(_)
\* String(n) of a non-negative integer, as template literals produce it
NumStr(n) == IF n < 10 THEN <<Digits[n + 1]>>
             ELSE NumStr(n \div 10) \o <<Digits[(n % 10) + 1]>>

-----------------------------------------------------------------------------
(* Maps with a growing key set (JS objects) *)

EmptyMap == <<>>
Put(f, k, v) == [x \in (DOMAIN f) \cup {k} |-> IF x = k THEN v ELSE f[x]]
Drop(f, k) == [x \in (DOMAIN f) \ {k} |-> f[x]]

HasField(data, h, p, s) ==
    /\ h \in DOMAIN data
    /\ p \in DOMAIN data[h]
    /\ s \in DOMAIN data[h][p]

\* every (host, path, selector) stored in data
FieldsOf(data) ==
    UNION { UNION { { <<h, p, s>> : s \in DOMAIN data[h][p] } : p \in DOMAIN data[h] }
            : h \in DOMAIN data }

RecOf(data, k) == data[k[1]][k[2]][k[3]]

\* data[host][path][selector] = fieldData, the containers being there
SetField(data, h, p, s, rec) == Put(data, h, Put(data[h], p, Put(data[h][p], s, rec)))

\* mutant: the empty path and host are left
RemoveFieldOnly(data, h, p, s) == Put(data, h, Put(data[h], p, Drop(data[h][p], s)))

\* delete data[host][path][selector], then the path and host when left empty
RemoveField(data, h, p, s) ==
    LET fields == Drop(data[h][p], s)
        paths  == IF DOMAIN fields = {} THEN Drop(data[h], p) ELSE Put(data[h], p, fields)
    IN  IF DOMAIN paths = {} THEN Drop(data, h) ELSE Put(data, h, paths)

-----------------------------------------------------------------------------
(* Edit distance: levenshtein.get(lastText, value), unit costs *)

Min2(x, y) == IF x < y THEN x ELSE y

RECURSIVE LevCells(_, _, _, _, _)
\* row i of the table, extended cell by cell; row[c + 1] is column c
LevCells(a, b, i, prev, row) ==
    LET j == Len(row)
    IN  IF j > Len(b) THEN row
        ELSE LevCells(a, b, i, prev,
                 Append(row, Min2(Min2(prev[j + 1] + 1, row[j] + 1),
                                  prev[j] + (IF a[i] = b[j] THEN 0 ELSE 1))))

RECURSIVE LevRows(_, _, _, _)
LevRows(a, b, i, prev) ==
    IF i > Len(a) THEN prev[Len(b) + 1]
    ELSE LevRows(a, b, i + 1, LevCells(a, b, i, prev, <<i>>))

levenshtein(a, b) == LevRows(a, b, 1, [j \in 1..(Len(b) + 1) |-> j - 1])

-----------------------------------------------------------------------------
(* The values the model draws from *)

HostA == <<"a">>
HostB == <<"b">>
HostZ == <<"z">>
PathRoot == <<"/">>
SelF == <<"f">>

KeyA == <<HostA, PathRoot, SelF>>
KeyB == <<HostB, PathRoot, SelF>>
KeyZ == <<HostZ, PathRoot, SelF>>

\* fields the capture layer reports input for
SubmitKeys == {KeyA, KeyB}
AllKeys == {KeyA, KeyB, KeyZ}
Hosts == {HostA, HostB, HostZ}

\* TextA-TextB are at distance 10, TextA-TextC at 9, TextB-TextC at 1
TextA == Str(10, "a")
TextB == Str(10, "b")
TextC == <<"a">> \o Str(9, "b")
\* the texts typed; TextB is only found in drafts stored earlier
Texts == {TextA, TextC}

Labels == {<<"L">>}
\* the labels the capture layer may find for a field: none, or one of two
AnyLabels == {<<>>, <<"L">>, <<"M">>}

\* A stored text of the size of the eviction threshold, written "#". It is only
\* ever held by KeyZ, a field that gets no input, so it is never diffed.
BigText == <<"#">>
BigTextBytes == (MAX_STORAGE_BYTES * SAFETY_MARGIN_PERCENT) \div 100
\* a stored text that is n bytes smaller, written "#" and n times "-"
ShortOf(n) == BigText \o Str(n, "-")

Version(ts, text) == [ts |-> ts, text |-> text]
Field(label, versions) ==
    [label |-> label, lastUpdated |-> versions[Len(versions)].ts, versions |-> versions]

\* KeyA after ten significant saves, one per second: the texts alternate
FullVersions ==
    [i \in 1..MAX_VERSIONS_PER_FIELD |->
        Version(StartMs - (MAX_VERSIONS_PER_FIELD + 1 - i) * THROTTLE_MS,
                IF i % 2 = 1 THEN TextA ELSE TextB)]
StoreFull == SetField([h \in {HostA} |-> [p \in {PathRoot} |-> EmptyMap]],
                      HostA, PathRoot, SelF, Field(<<"L">>, FullVersions))

\* an old site holding one large draft
StoreBig == SetField([h \in {HostZ} |-> [p \in {PathRoot} |-> EmptyMap]],
                     HostZ, PathRoot, SelF,
                     Field(<<"L">>, <<Version(StartMs - 15 * THROTTLE_MS, BigText)>>))

InitStores == {EmptyMap, StoreFull, StoreBig}

\* One host with a field of one version
SiteOf(ts, text) ==
    [p \in {PathRoot} |-> [s \in {SelF} |-> Field(<<"L">>, <<Version(ts, text)>>)]]

\* Stores at the eviction threshold. BigOldest: the large draft is the oldest and two
\* small sites are newer. SameAge: two small sites of the same age and older than the
\* large draft.
OldMs == StartMs - 15 * THROTTLE_MS
StoreBigOldest ==
    Put(Put(Put(EmptyMap, HostZ, SiteOf(OldMs, BigText)), HostA, SiteOf(OldMs + 1, TextA)),
        HostB, SiteOf(OldMs + 2, TextB))
StoreSameAge ==
    Put(Put(Put(EmptyMap, HostA, SiteOf(OldMs, TextA)), HostB, SiteOf(OldMs, TextB)),
        HostZ, SiteOf(OldMs + 1, BigText))

\* more sites than one pass of ensureStorageSpace evicts, each older than the next,
\* and the large draft, the newest
ManyHost(i) == <<"h">> \o NumStr(i)
StoreMany ==
    [h \in { ManyHost(i) : i \in 0..MAX_EVICTED } \cup {HostZ} |->
        IF h = HostZ THEN SiteOf(OldMs + MAX_EVICTED + 1, BigText)
        ELSE SiteOf(OldMs + (CHOOSE i \in 0..MAX_EVICTED : ManyHost(i) = h), TextA)]

\* stores 1 byte and 10 bytes (the size of the text saved) below the threshold
StoreNear == Put(EmptyMap, HostZ, SiteOf(OldMs, ShortOf(1)))
StoreUnder == Put(EmptyMap, HostZ, SiteOf(OldMs, ShortOf(Len(TextA))))

EvictStores == {StoreBig, StoreBigOldest, StoreSameAge, StoreMany, StoreNear, StoreUnder}

\* a page whose path holds the '|' of the entry ids, and a field whose selector does
PathX == <<"/", "x">>
PathXY == <<"/", "x", "|", "y">>
SelYF == <<"y", "|", "f">>
KeyS == <<HostA, PathX, SelYF>>
KeyP == <<HostA, PathXY, SelF>>

\* Three fields whose versions were saved in turn: three of KeyA, two of KeyS, and
\* one of KeyB, the oldest
StoreTurns ==
    SetField(
      SetField(
        SetField([h \in {HostA, HostB} |->
                     IF h = HostA THEN [p \in {PathRoot, PathX} |-> EmptyMap]
                     ELSE [p \in {PathRoot} |-> EmptyMap]],
                 HostA, PathRoot, SelF,
                 Field(<<"L">>, <<Version(OldMs + 1, TextA), Version(OldMs + 3, TextB),
                                  Version(OldMs + 5, TextC)>>)),
        HostA, PathX, SelYF,
        Field(<<>>, <<Version(OldMs + 2, TextA), Version(OldMs + 4, TextB)>>)),
      HostB, PathRoot, SelF, Field(<<"L">>, <<Version(OldMs, TextA)>>))

EntryStores == {EmptyMap, StoreTurns}

\* A site with two fields on one page and one field on another page, and a second
\* site with one field
KeyR == <<HostA, PathRoot, SelYF>>
KeyX == <<HostA, PathX, SelF>>
StoreTree ==
    SetField(
      SetField(
        SetField(
          SetField([h \in {HostA, HostB} |->
                       IF h = HostA THEN [p \in {PathRoot, PathX} |-> EmptyMap]
                       ELSE [p \in {PathRoot} |-> EmptyMap]],
                   HostA, PathRoot, SelF,
                   Field(<<"L">>, <<Version(OldMs + 1, TextA), Version(OldMs + 5, TextB)>>)),
          HostA, PathRoot, SelYF, Field(<<"L">>, <<Version(OldMs + 2, TextA)>>)),
        HostA, PathX, SelF, Field(<<"L">>, <<Version(OldMs + 3, TextC)>>)),
      HostB, PathRoot, SelF, Field(<<"L">>, <<Version(OldMs + 4, TextA)>>))
TreeKeys == {KeyA, KeyR, KeyX, KeyB, KeyZ}

\* a page whose path holds the '::' of the field keys, and a field whose selector does
PathXC == <<"/", "x", ":", ":", "y">>
SelYCF == <<"y", ":", ":", "f">>
KeyC == <<HostA, PathXC, SelF>>
KeyD == <<HostA, PathX, SelYCF>>

-----------------------------------------------------------------------------
(* storage.js *)

RECURSIVE VersionsBytes(_)
VersionsBytes(vs) ==
    IF vs = <<>> THEN 0
    ELSE (IF Head(vs).text # <<>> /\ Head(Head(vs).text) = Head(BigText)
          THEN BigTextBytes - (Len(Head(vs).text) - 1)
          ELSE Len(Head(vs).text))
         + VersionsBytes(Tail(vs))

RECURSIVE SumBytes(_, _)
SumBytes(data, ks) ==
    IF ks = {} THEN 0
    ELSE LET k == CHOOSE x \in ks : TRUE
         IN  VersionsBytes(RecOf(data, k).versions) + SumBytes(data, ks \ {k})

\* chrome.storage.local.getBytesInUse(['lazarus_data']): the stored texts' sizes
getBytesInUse(data) == SumBytes(data, FieldsOf(data))

\* mutant: <= in place of <
BelowMarginInclusive(bytes) == bytes * 100 <= SAFETY_MARGIN_PERCENT * MAX_STORAGE_BYTES

\* stats.percentage < SAFETY_MARGIN * 100, percentage = bytesInUse / MAX_STORAGE_BYTES * 100
\* (in doubles both sides are 90.00000000000001 at 4718592 bytes, and one byte is 1.9e-5)
BelowMargin(bytes) == bytes * 100 < SAFETY_MARGIN_PERCENT * MAX_STORAGE_BYTES

\* getFieldData: data[host]?.[path]?.[selector] || null, as a list of 0 or 1 records
getFieldData(data, h, p, s) == IF HasField(data, h, p, s) THEN <<data[h][p][s]>> ELSE <<>>

\* mutant: the trim is missing
TrimVersionsMissing(vs) == vs

\* mutant: the trim keeps the first ten versions, slice(0, MAX_VERSIONS_PER_FIELD)
TrimVersionsOldest(vs) ==
    IF Len(vs) > MAX_VERSIONS_PER_FIELD THEN SubSeq(vs, 1, MAX_VERSIONS_PER_FIELD) ELSE vs

\* fieldData.versions.slice(-MAX_VERSIONS_PER_FIELD) when longer than the maximum
TrimVersions(vs) ==
    IF Len(vs) > MAX_VERSIONS_PER_FIELD
    THEN SubSeq(vs, Len(vs) - MAX_VERSIONS_PER_FIELD + 1, Len(vs))
    ELSE vs

\* mutant: the test for an empty version list is missing from the if
SaveVersionsFlagOnly(vs, text, timestamp, isSignificantChange) ==
    IF isSignificantChange
    THEN TrimVersions(Append(vs, Version(timestamp, text)))
    ELSE IF Len(vs) > 0 THEN [vs EXCEPT ![Len(vs)] = Version(timestamp, text)] ELSE vs

\* mutant: nothing is stored when the store is at 90 % or more
SaveVersionsIfRoom(vs, text, timestamp, isSignificantChange) ==
    IF ~BelowMargin(getBytesInUse(blob)) THEN vs
    ELSE IF isSignificantChange \/ Len(vs) = 0
    THEN TrimVersions(Append(vs, Version(timestamp, text)))
    ELSE [vs EXCEPT ![Len(vs)] = Version(timestamp, text)]

\* mutant: the rewrite of the last version stamps every version of the field
SaveVersionsRestamp(vs, text, timestamp, isSignificantChange) ==
    IF isSignificantChange \/ Len(vs) = 0
    THEN TrimVersions(Append(vs, Version(timestamp, text)))
    ELSE [i \in 1..Len(vs) |->
             IF i = Len(vs) THEN Version(timestamp, text) ELSE Version(timestamp, vs[i].text)]

\* the version list of saveFieldData: push and trim, or rewrite the last one
SaveVersions(vs, text, timestamp, isSignificantChange) ==
    IF isSignificantChange \/ Len(vs) = 0
    THEN TrimVersions(Append(vs, Version(timestamp, text)))
    ELSE [vs EXCEPT ![Len(vs)] = Version(timestamp, text)]

\* mutant: fieldData.label = label without the if
UpdateLabelAlways(fieldData, label) == [fieldData EXCEPT !.label = label]

\* if (label) fieldData.label = label
UpdateLabel(fieldData, label) ==
    IF label # <<>> THEN [fieldData EXCEPT !.label = label] ELSE fieldData

\* mutant: only a record that is stored is updated
SaveFieldMutateStored(data, m, isSignificantChange) ==
    IF ~HasField(data, m.host, m.path, m.selector) THEN data
    ELSE LET f0 == data[m.host][m.path][m.selector]
             f1 == UpdateLabel(f0, m.label)
             f2 == [f1 EXCEPT !.lastUpdated = m.timestamp,
                              !.versions = SaveVersions(@, m.value, m.timestamp,
                                                        isSignificantChange)]
         IN  SetField(data, m.host, m.path, m.selector, f2)

\* saveFieldData between its getAllData and its saveAllData
SaveFieldMutate(data, m, isSignificantChange) ==
    LET d1 == IF m.host \in DOMAIN data THEN data ELSE Put(data, m.host, EmptyMap)
        d2 == IF m.path \in DOMAIN d1[m.host] THEN d1
              ELSE Put(d1, m.host, Put(d1[m.host], m.path, EmptyMap))
        f0 == IF m.selector \in DOMAIN d2[m.host][m.path]
              THEN d2[m.host][m.path][m.selector]
              ELSE [label |-> m.label, lastUpdated |-> m.timestamp, versions |-> <<>>]
        f1 == UpdateLabel(f0, m.label)
        f2 == [f1 EXCEPT !.lastUpdated = m.timestamp,
                         !.versions = SaveVersions(@, m.value, m.timestamp,
                                                   isSignificantChange)]
    IN  SetField(d2, m.host, m.path, m.selector, f2)

\* mutant: the page of the field is deleted with all its fields
DeleteFieldDropsPath(data, h, p, s) ==
    LET paths == Drop(data[h], p)
    IN  IF DOMAIN paths = {} THEN Drop(data, h) ELSE Put(data, h, paths)

\* deleteField between its getAllData and its saveAllData
DeleteFieldMutate(data, h, p, s) == RemoveField(data, h, p, s)

\* mutant: data[host] = {}
DeleteDomainKeepsHost(data, h) == Put(data, h, EmptyMap)

\* deleteDomain: delete data[host]
DeleteDomainMutate(data, h) == Drop(data, h)

\* Object.entries(data) visits the hosts in this order
HostOrder == <<HostA, HostB, HostZ>> \o [i \in 1..(MAX_EVICTED + 1) |-> ManyHost(i - 1)]
HostRank(h) == CHOOSE i \in 1..Len(HostOrder) : HostOrder[i] = h

\* the smallest lastUpdated among the fields of a host
OldestTime(data, h) ==
    LET ts == { data[h][p][s].lastUpdated : <<p, s>> \in
                  UNION { { <<p, s>> : s \in DOMAIN data[h][p] } : p \in DOMAIN data[h] } }
    IN  CHOOSE t \in ts : \A u \in ts : t <= u

\* mutant: <= in place of <, the last host that holds the minimum is kept
findOldestDomainLast(data) ==
    LET hs == { k[1] : k \in FieldsOf(data) }
    IN  IF hs = {} THEN <<>>
        ELSE <<CHOOSE h \in hs : \A g \in hs :
                  \/ OldestTime(data, h) < OldestTime(data, g)
                  \/ /\ OldestTime(data, h) = OldestTime(data, g)
                     /\ HostRank(h) >= HostRank(g)>>

\* findOldestDomain: the strict < keeps the first host that holds the minimum;
\* null (here <<>>) when no field is stored
findOldestDomain(data) ==
    LET hs == { k[1] : k \in FieldsOf(data) }
    IN  IF hs = {} THEN <<>>
        ELSE <<CHOOSE h \in hs : \A g \in hs :
                  \/ OldestTime(data, h) < OldestTime(data, g)
                  \/ /\ OldestTime(data, h) = OldestTime(data, g)
                     /\ HostRank(h) <= HostRank(g)>>

\* mutant: the loop condition measures the data that the pass has kept
EvictStepRecomputed(statsBytes, data, evicted) ==
    IF ~BelowMargin(getBytesInUse(data)) /\ evicted < MAX_EVICTED
       /\ findOldestDomain(data) # <<>>
    THEN [data |-> Drop(data, findOldestDomain(data)[1]), evicted |-> evicted + 1,
          awaiting |-> TRUE]
    ELSE [data |-> data, evicted |-> evicted, awaiting |-> FALSE]

\* mutant: the loop condition is without evicted < 10
EvictStepNoBudget(statsBytes, data, evicted) ==
    IF ~BelowMargin(statsBytes) /\ findOldestDomain(data) # <<>>
    THEN [data |-> Drop(data, findOldestDomain(data)[1]), evicted |-> evicted + 1,
          awaiting |-> TRUE]
    ELSE [data |-> data, evicted |-> evicted, awaiting |-> FALSE]

\* One pass of the while loop of ensureStorageSpace up to its next await (or its end),
\* entered with the loop's data and evicted. The condition reads the stats taken before
\* the loop. Gives the data, the count and whether the pass stopped at the await.
EvictStep(statsBytes, data, evicted) ==
    IF ~BelowMargin(statsBytes) /\ evicted < MAX_EVICTED /\ findOldestDomain(data) # <<>>
    THEN [data |-> Drop(data, findOldestDomain(data)[1]), evicted |-> evicted + 1,
          awaiting |-> TRUE]
    ELSE [data |-> data, evicted |-> evicted, awaiting |-> FALSE]

RECURSIVE Split(_, _)
\* id.split('|'): cur is the part being read
Split(str, cur) ==
    IF str = <<>> THEN <<cur>>
    ELSE IF Head(str) = "|" THEN <<cur>> \o Split(Tail(str), <<>>)
    ELSE Split(Tail(str), Append(cur, Head(str)))

RECURSIVE Join(_)
\* parts.join('|')
Join(parts) ==
    IF parts = <<>> THEN <<>>
    ELSE IF Len(parts) = 1 THEN parts[1]
    ELSE parts[1] \o Bar \o Join(Tail(parts))

RECURSIVE DigitsValue(_, _)
\* the value of the leading digits of str, after acc
DigitsValue(str, acc) ==
    IF str = <<>> \/ ~IsDigit(Head(str)) THEN acc
    ELSE DigitsValue(Tail(str), 10 * acc + DigitVal(Head(str)))

\* parseInt(str, 10): sign, then the leading digits; NaN (here <<>>) without a digit
\* (the strings of the model hold no white space)
parseInt(str) ==
    LET neg  == str # <<>> /\ Head(str) = "-"
        body == IF str # <<>> /\ Head(str) \in {"-", "+"} THEN Tail(str) ELSE str
    IN  IF body = <<>> \/ ~IsDigit(Head(body)) THEN <<>>
        ELSE <<(IF neg THEN -1 ELSE 1) * DigitsValue(body, 0)>>

\* parseEntryId; a missing part is undefined, which as a property key reads "undefined"
parseEntryId(id) ==
    LET all   == Split(id, <<>>)
        parts == SubSeq(all, 1, Len(all) - 1)
    IN  [host |-> IF Len(parts) >= 1 THEN parts[1] ELSE Undefined,
         path |-> IF Len(parts) >= 2 THEN parts[2] ELSE Undefined,
         selector |-> Join(SubSeq(parts, 3, Len(parts))),
         versionIndex |-> parseInt(all[Len(all)])]

\* `${host}|${path}|${selector}|${versionIndex}`
EntryId(h, p, s, versionIndex) == h \o Bar \o p \o Bar \o s \o Bar \o NumStr(versionIndex)

\* mutant: a start past the end is clamped to the last version
SpliceClamped(vs, versionIndex) ==
    LET raw   == IF versionIndex = <<>> THEN 0 ELSE versionIndex[1]
        start == IF raw < 0 THEN (IF Len(vs) + raw < 0 THEN 0 ELSE Len(vs) + raw)
                 ELSE Min2(raw, Len(vs) - 1)
    IN  IF vs # <<>>
        THEN SubSeq(vs, 1, start) \o SubSeq(vs, start + 2, Len(vs))
        ELSE vs

\* mutant: versions.shift()
SpliceFirst(vs, versionIndex) == IF vs = <<>> THEN vs ELSE Tail(vs)

\* versions.splice(versionIndex, 1): NaN starts at 0, a negative start counts from the end
Splice(vs, versionIndex) ==
    LET raw   == IF versionIndex = <<>> THEN 0 ELSE versionIndex[1]
        start == IF raw < 0 THEN (IF Len(vs) + raw < 0 THEN 0 ELSE Len(vs) + raw)
                 ELSE Min2(raw, Len(vs))
    IN  IF start < Len(vs)
        THEN SubSeq(vs, 1, start) \o SubSeq(vs, start + 2, Len(vs))
        ELSE vs

\* Object.entries visits the paths of a host and the selectors of a path in this order
PathOrder == <<PathRoot, PathX, PathXY>>
SelOrder == <<SelF, SelYF>>

\* the three nested loops of getAllEntriesFlat: every field of data, in the order of
\* the visit
FieldOrder(data) ==
    LET np  == Len(PathOrder)
        ns  == Len(SelOrder)
        all == [i \in 1..(Len(HostOrder) * np * ns) |->
                  <<HostOrder[((i - 1) \div (np * ns)) + 1],
                    PathOrder[(((i - 1) \div ns) % np) + 1],
                    SelOrder[((i - 1) % ns) + 1]>>]
        Present(k) == HasField(data, k[1], k[2], k[3])
    IN  SelectSeq(all, Present)

Untitled == <<"U", "n", "t", "i", "t", "l", "e", "d">>

\* mutant: one entry per field, made of its latest version
EntriesOfFieldLatest(data, k) ==
    LET f == RecOf(data, k)
        n == Len(f.versions)
    IN  [i \in 1..Min2(n, 1) |->
            [id |-> EntryId(k[1], k[2], k[3], n - 1),
             host |-> k[1], path |-> k[2], selector |-> k[3],
             label |-> IF f.label = <<>> THEN Untitled ELSE f.label,
             timestamp |-> f.versions[n].ts,
             text |-> f.versions[n].text]]

\* versions.forEach: one entry per version of the field k
EntriesOfField(data, k) ==
    LET f == RecOf(data, k)
    IN  [i \in 1..Len(f.versions) |->
            [id |-> EntryId(k[1], k[2], k[3], i - 1),
             host |-> k[1], path |-> k[2], selector |-> k[3],
             label |-> IF f.label = <<>> THEN Untitled ELSE f.label,
             timestamp |-> f.versions[i].ts,
             text |-> f.versions[i].text]]

RECURSIVE EntriesOf(_, _)
EntriesOf(data, ks) ==
    IF ks = <<>> THEN <<>>
    ELSE EntriesOfField(data, Head(ks)) \o EntriesOf(data, Tail(ks))

\* mutant: the comparator is a.timestamp - b.timestamp
compareAscending(a, b) == a.timestamp - b.timestamp

\* (a, b) => b.timestamp - a.timestamp
compareEntries(a, b) == b.timestamp - a.timestamp

\* entries.sort(compareEntries), a stable sort: an entry comes behind the entries
\* that compare before it and the equal ones that stood before it
SortEntries(entries) ==
    LET n == Len(entries)
        ahead == [i \in 1..n |->
                    Cardinality({ j \in 1..n :
                        \/ compareEntries(entries[j], entries[i]) < 0
                        \/ /\ compareEntries(entries[j], entries[i]) = 0
                           /\ j < i })]
    IN  [p \in 1..n |-> entries[CHOOSE i \in 1..n : ahead[i] = p - 1]]

\* getAllEntriesFlat on the data it read
getAllEntriesFlat(data) == SortEntries(EntriesOf(data, FieldOrder(data)))

\* deleteEntryById returns before any write when the field is not stored
DeleteEntryReturns(data, id) ==
    LET e == parseEntryId(id) IN ~HasField(data, e.host, e.path, e.selector)

\* mutant: the field is kept when no version is left
DeleteEntryKeepsEmpty(data, id) ==
    LET e  == parseEntryId(id)
        f  == data[e.host][e.path][e.selector]
        vs == Splice(f.versions, e.versionIndex)
    IN  SetField(data, e.host, e.path, e.selector,
                 [f EXCEPT !.versions = vs,
                           !.lastUpdated = IF Len(vs) = 0 THEN @ ELSE vs[Len(vs)].ts])

\* mutant: lastUpdated is left as it was when versions remain
DeleteEntryKeepsStamp(data, id) ==
    LET e  == parseEntryId(id)
        f  == data[e.host][e.path][e.selector]
        vs == Splice(f.versions, e.versionIndex)
    IN  IF Len(vs) = 0 THEN RemoveField(data, e.host, e.path, e.selector)
        ELSE SetField(data, e.host, e.path, e.selector, [f EXCEPT !.versions = vs])

\* deleteEntryById between its getAllData and its storage.local.set
DeleteEntryMutate(data, id) ==
    LET e  == parseEntryId(id)
        f  == data[e.host][e.path][e.selector]
        vs == Splice(f.versions, e.versionIndex)
    IN  IF Len(vs) = 0 THEN RemoveField(data, e.host, e.path, e.selector)
        ELSE SetField(data, e.host, e.path, e.selector,
                      [f EXCEPT !.versions = vs, !.lastUpdated = vs[Len(vs)].ts])

-----------------------------------------------------------------------------
(* The service worker: messages, throttled savers, processInput *)

\* message.payload of an INPUT_CAPTURED message; seq numbers the messages (history)
Payload(k, label, value, timestamp, seq) ==
    [host |-> k[1], path |-> k[2], selector |-> k[3], label |-> label,
     value |-> value, timestamp |-> timestamp, seq |-> seq]
NoPayload == Payload(<<<<>>, <<>>, <<>>>>, <<>>, <<>>, 0, 0)

getFieldKey(h, p, s) == h \o Colons \o p \o Colons \o s
KeyOf(m) == <<m.host, m.path, m.selector>>
FieldKeyOf(m) == getFieldKey(m.host, m.path, m.selector)

\* throttle(fn, THROTTLE_MS, {leading: true, trailing: true}) is lodash's debounce with
\* maxWait = wait; its closure state, undefined being <<>>
NewThrottle == [lastArgs |-> <<>>, lastCallTime |-> <<>>, lastInvokeTime |-> 0,
                timerId |-> <<>>]

\* mutant: a wait of 0, every call is due
shouldInvokeNoWait(th, time) ==
    \/ th.lastCallTime = <<>>
    \/ time - th.lastCallTime[1] >= 0
    \/ time - th.lastInvokeTime >= 0

shouldInvoke(th, time) ==
    \/ th.lastCallTime = <<>>
    \/ time - th.lastCallTime[1] >= THROTTLE_MS
    \/ time - th.lastCallTime[1] < 0
    \/ time - th.lastInvokeTime >= THROTTLE_MS

remainingWait(th, time) ==
    Min2(THROTTLE_MS - (time - th.lastCallTime[1]), THROTTLE_MS - (time - th.lastInvokeTime))

\* invokeFunc(time): hands lastArgs to processInput and forgets them
invokeFunc(th, time) ==
    [th |-> [th EXCEPT !.lastArgs = <<>>, !.lastInvokeTime = time], invoke |-> th.lastArgs]

\* mutant: {leading: false}, the leading edge only arms the timer
DebouncedNoLeading(th, args, time) ==
    LET called == [th EXCEPT !.lastArgs = <<args>>, !.lastCallTime = <<time>>]
    IN  IF shouldInvoke(th, time) /\ th.timerId = <<>>
        THEN [th |-> [called EXCEPT !.lastInvokeTime = time,
                                    !.timerId = <<time + THROTTLE_MS>>],
              invoke |-> <<>>]
        ELSE IF shouldInvoke(th, time)
        THEN invokeFunc([called EXCEPT !.timerId = <<time + THROTTLE_MS>>], time)
        ELSE [th |-> [called EXCEPT !.timerId =
                         IF @ = <<>> THEN <<time + THROTTLE_MS>> ELSE @],
              invoke |-> <<>>]

\* the throttled function called with args at time: leading edge, the maxWait branch
\* (timer still pending), or only remembering the args and arming the timer
Debounced(th, args, time) ==
    LET called == [th EXCEPT !.lastArgs = <<args>>, !.lastCallTime = <<time>>]
    IN  IF shouldInvoke(th, time) /\ th.timerId = <<>>
        THEN invokeFunc([called EXCEPT !.timerId = <<time + THROTTLE_MS>>], time)
        ELSE IF shouldInvoke(th, time)
        THEN invokeFunc([called EXCEPT !.timerId = <<time + THROTTLE_MS>>], time)
        ELSE [th |-> [called EXCEPT !.timerId =
                         IF @ = <<>> THEN <<time + THROTTLE_MS>> ELSE @],
              invoke |-> <<>>]

\* mutant: {trailing: false}, the trailing edge forgets the waiting args
TimerExpiredNoTrailing(th, time) ==
    IF shouldInvoke(th, time)
    THEN [th |-> [th EXCEPT !.timerId = <<>>, !.lastArgs = <<>>], invoke |-> <<>>]
    ELSE [th |-> [th EXCEPT !.timerId = <<time + remainingWait(th, time)>>],
          invoke |-> <<>>]

\* timerExpired at time: the trailing edge, or the timer set again
TimerExpired(th, time) ==
    IF shouldInvoke(th, time)
    THEN IF th.lastArgs # <<>>
         THEN invokeFunc([th EXCEPT !.timerId = <<>>], time)
         ELSE [th |-> [th EXCEPT !.timerId = <<>>], invoke |-> <<>>]
    ELSE [th |-> [th EXCEPT !.timerId = <<time + remainingWait(th, time)>>],
          invoke |-> <<>>]

\* mutant: distance > the threshold
IsSignificantStrict(existingData, value) ==
    IF existingData # <<>> /\ Len(existingData[1].versions) > 0
    THEN levenshtein(existingData[1].versions[Len(existingData[1].versions)].text, value)
             > SIGNIFICANT_CHANGE_THRESHOLD
    ELSE TRUE

\* processInput's decision: no stored version, or distance >= the threshold
IsSignificant(existingData, value) ==
    IF existingData # <<>> /\ Len(existingData[1].versions) > 0
    THEN levenshtein(existingData[1].versions[Len(existingData[1].versions)].text, value)
             >= SIGNIFICANT_CHANGE_THRESHOLD
    ELSE TRUE

\* An async call suspended at an await. processInput: pi_get (getFieldData), ess_stats,
\* ess_get, ess_restat, ess_set (ensureStorageSpace), sfd_get, sfd_set (saveFieldData).
Task(op, pc, n, m, id) ==
    [op |-> op, pc |-> pc, n |-> n, payload |-> m, id |-> id, existingData |-> <<>>,
     sig |-> TRUE, stats |-> 0, data |-> EmptyMap, evicted |-> 0]
NoTask == Task("none", "none", 0, NoPayload, <<>>)

\* mutant: the runs of a saver are chained on one promise, and no run follows a
\* rejected one
StartedChained(r) ==
    IF r.invoke = <<>> \/ errorLog # {} THEN {}
    ELSE {Task("processInput", "pi_get", r.invoke[1].seq, r.invoke[1], <<>>)}

\* what the throttled saver started, as tasks and as history
Started(r) == IF r.invoke = <<>> THEN {}
              ELSE {Task("processInput", "pi_get", r.invoke[1].seq, r.invoke[1], <<>>)}
RanAfter(fk, r) ==
    IF r.invoke = <<>> THEN ran
    ELSE Put(ran, fk, Append(IF fk \in DOMAIN ran THEN ran[fk] ELSE <<>>,
                             [seq |-> r.invoke[1].seq, at |-> now]))

\* history of the last storage operation: the call, and the addressed field's record in
\* the data it had read (a list of 0 or 1 records)
Done(kind, t) ==
    [kind |-> kind, task |-> [t EXCEPT !.data = EmptyMap],
     prev |-> IF t.op = "deleteEntry"
              THEN getFieldData(t.data, parseEntryId(t.id).host, parseEntryId(t.id).path,
                                parseEntryId(t.id).selector)
              ELSE getFieldData(t.data, t.payload.host, t.payload.path, t.payload.selector)]

Init ==
    /\ blob \in InitStores
    /\ throttledSavers = EmptyMap
    /\ tasks = {}
    /\ now = StartMs
    /\ nsub = 0
    /\ ncalls = 0
    /\ lastSubmit = EmptyMap
    /\ ran = EmptyMap
    /\ lastOp = Done("none", NoTask)
    /\ errorLog = {}

\* handleMessage for an INPUT_CAPTURED message: the field's saver, made on first use
HandleMessage(k, label, value) ==
    /\ nsub < MaxSubmits
    /\ LET m  == Payload(k, label, value, now, nsub + 1)
           fk == FieldKeyOf(m)
           th == IF fk \in DOMAIN throttledSavers THEN throttledSavers[fk] ELSE NewThrottle
           r  == Debounced(th, m, now)
       IN  /\ throttledSavers' = Put(throttledSavers, fk, r.th)
           /\ tasks' = tasks \cup Started(r)
           /\ lastSubmit' = Put(lastSubmit, fk, m)
           /\ ran' = RanAfter(fk, r)
    /\ nsub' = nsub + 1
    /\ UNCHANGED <<blob, now, ncalls, lastOp, errorLog>>

\* a saver's timer callback, run at or after the time it was set for
TimerFires(fk) ==
    /\ fk \in DOMAIN throttledSavers
    /\ throttledSavers[fk].timerId # <<>>
    /\ now >= throttledSavers[fk].timerId[1]
    /\ LET r == TimerExpired(throttledSavers[fk], now)
       IN  /\ throttledSavers' = Put(throttledSavers, fk, r.th)
           /\ tasks' = tasks \cup Started(r)
           /\ ran' = RanAfter(fk, r)
    /\ UNCHANGED <<blob, now, nsub, ncalls, lastSubmit, lastOp, errorLog>>

Tick ==
    /\ now < StartMs + MaxTicks * TickMs
    /\ now' = now + TickMs
    /\ UNCHANGED <<blob, throttledSavers, tasks, nsub, ncalls, lastSubmit, ran, lastOp,
                   errorLog>>

Step(t, u) == tasks' = (tasks \ {t}) \cup {u}
Ends(t) == tasks' = tasks \ {t}
Frame == UNCHANGED <<throttledSavers, now, nsub, ncalls, lastSubmit, ran, errorLog>>

\* getFieldData answers; processInput classifies and saveFieldData asks for the stats
PiGet(t) ==
    /\ t.pc = "pi_get"
    /\ LET existingData == getFieldData(blob, t.payload.host, t.payload.path,
                                        t.payload.selector)
       IN  Step(t, [t EXCEPT !.pc = "ess_stats", !.existingData = existingData,
                       !.sig = IsSignificant(existingData, t.payload.value)])
    /\ UNCHANGED <<blob, lastOp>>
    /\ Frame

\* the first getStorageStats answers: return (saveFieldData reads), or read to evict
EssStats(t) ==
    /\ t.pc = "ess_stats"
    /\ Step(t, [t EXCEPT !.stats = getBytesInUse(blob),
                   !.pc = IF BelowMargin(getBytesInUse(blob)) THEN "sfd_get" ELSE "ess_get"])
    /\ UNCHANGED <<blob, lastOp>>
    /\ Frame

\* after a pass of the loop: at the next await, at the write, or back in saveFieldData
AfterEvict(t, e) ==
    [t EXCEPT !.data = e.data, !.evicted = e.evicted,
              !.pc = IF e.awaiting THEN "ess_restat"
                     ELSE IF e.evicted > 0 THEN "ess_set" ELSE "sfd_get"]

\* ensureStorageSpace's getAllData answers; the loop runs to its first await
EssGet(t) ==
    /\ t.pc = "ess_get"
    /\ Step(t, AfterEvict(t, EvictStep(t.stats, blob, 0)))
    /\ UNCHANGED <<blob, lastOp>>
    /\ Frame

\* the getStorageStats inside the loop answers: break, or the next pass
EssRestat(t) ==
    /\ t.pc = "ess_restat"
    /\ Step(t, IF BelowMargin(getBytesInUse(blob)) THEN [t EXCEPT !.pc = "ess_set"]
               ELSE AfterEvict(t, EvictStep(t.stats, t.data, t.evicted)))
    /\ UNCHANGED <<blob, lastOp>>
    /\ Frame

\* ensureStorageSpace's saveAllData lands; saveFieldData goes on to read
EssSet(t) ==
    /\ t.pc = "ess_set"
    /\ blob' = t.data
    /\ Step(t, [t EXCEPT !.pc = "sfd_get"])
    /\ lastOp' = Done("evict", t)
    /\ Frame

\* saveFieldData's getAllData answers; the record is changed and saveAllData called
SfdGet(t) ==
    /\ t.pc = "sfd_get"
    /\ Step(t, [t EXCEPT !.pc = "sfd_set", !.data = blob])
    /\ UNCHANGED <<blob, lastOp>>
    /\ Frame

\* saveFieldData's saveAllData lands
SfdSet(t) ==
    /\ t.pc = "sfd_set"
    /\ blob' = SaveFieldMutate(t.data, t.payload, t.sig)
    /\ Ends(t)
    /\ lastOp' = Done("save", t)
    /\ Frame

\* The chrome.storage call that a run of processInput awaits rejects (a read,
\* getBytesInUse, or a write, which then stores nothing): the catch logs the error and
\* the run ends, its promise resolved
StorageFails(t) ==
    /\ t.op = "processInput"
    /\ Ends(t)
    /\ errorLog' = errorLog \cup {t.payload.seq}
    /\ lastOp' = Done("caught", t)
    /\ UNCHANGED <<blob, throttledSavers, now, nsub, ncalls, lastSubmit, ran>>

-----------------------------------------------------------------------------
(* The storage functions called from outside processInput *)

\* saveFieldData called with any flag, stamped with the time of the call, which is
\* later than that of the call before; it runs to the await in getStorageStats
SaveFieldDataCall(k, label, value, isSignificantChange) ==
    /\ ncalls < MaxCalls
    /\ ncalls' = ncalls + 1
    /\ now' = now + TickMs
    /\ tasks' = tasks \cup
          {[Task("saveFieldData", "ess_stats", ncalls + 1,
                 Payload(k, label, value, now', 0), <<>>) EXCEPT !.sig = isSignificantChange]}
    /\ UNCHANGED <<blob, lastOp>>
    /\ UNCHANGED <<throttledSavers, nsub, lastSubmit, ran, errorLog>>

UiFrame == UNCHANGED <<throttledSavers, now, nsub, lastSubmit, ran, errorLog>>

\* deleteField's getAllData answers; nothing is written for a field not stored
DeleteFieldGet(k) ==
    /\ ncalls < MaxCalls
    /\ ncalls' = ncalls + 1
    /\ LET t == Task("deleteField", "df_set", ncalls + 1, Payload(k, <<>>, <<>>, 0, 0), <<>>)
       IN  IF HasField(blob, k[1], k[2], k[3])
           THEN /\ tasks' = tasks \cup {[t EXCEPT !.data = blob]}
                /\ UNCHANGED lastOp
           ELSE /\ UNCHANGED tasks
                /\ lastOp' = Done("absent", t)
    /\ UNCHANGED blob
    /\ UiFrame

DeleteFieldSet(t) ==
    /\ t.pc = "df_set"
    /\ blob' = DeleteFieldMutate(t.data, t.payload.host, t.payload.path, t.payload.selector)
    /\ Ends(t)
    /\ lastOp' = Done("deleteField", t)
    /\ UNCHANGED ncalls
    /\ UiFrame

\* deleteDomain's getAllData answers
DeleteDomainGet(h) ==
    /\ ncalls < MaxCalls
    /\ ncalls' = ncalls + 1
    /\ LET t == Task("deleteDomain", "dd_set", ncalls + 1,
                     Payload(<<h, <<>>, <<>>>>, <<>>, <<>>, 0, 0), <<>>)
       IN  IF h \in DOMAIN blob
           THEN /\ tasks' = tasks \cup {[t EXCEPT !.data = blob]}
                /\ UNCHANGED lastOp
           ELSE /\ UNCHANGED tasks
                /\ lastOp' = Done("absent", t)
    /\ UNCHANGED blob
    /\ UiFrame

DeleteDomainSet(t) ==
    /\ t.pc = "dd_set"
    /\ blob' = DeleteDomainMutate(t.data, t.payload.host)
    /\ Ends(t)
    /\ lastOp' = Done("deleteDomain", t)
    /\ UNCHANGED ncalls
    /\ UiFrame

\* deleteEntryById's getAllData answers
DeleteEntryGet(id) ==
    /\ ncalls < MaxCalls
    /\ ncalls' = ncalls + 1
    /\ LET t == Task("deleteEntry", "de_set", ncalls + 1, NoPayload, id)
       IN  IF DeleteEntryReturns(blob, id)
           THEN /\ UNCHANGED tasks
                /\ lastOp' = Done("absent", t)
           ELSE /\ tasks' = tasks \cup {[t EXCEPT !.data = blob]}
                /\ UNCHANGED lastOp
    /\ UNCHANGED blob
    /\ UiFrame

DeleteEntrySet(t) ==
    /\ t.pc = "de_set"
    /\ blob' = DeleteEntryMutate(t.data, t.id)
    /\ Ends(t)
    /\ lastOp' = Done("deleteEntry", t)
    /\ UNCHANGED ncalls
    /\ UiFrame

\* handleClearData, confirmed: chrome.storage.local.remove(['lazarus_data'])
ClearData ==
    /\ ncalls < MaxCalls
    /\ ncalls' = ncalls + 1
    /\ blob' = EmptyMap
    /\ lastOp' = Done("clear", Task("clear", "done", ncalls + 1, NoPayload, <<>>))
    /\ UNCHANGED tasks
    /\ UiFrame

\* what the deletions are asked for
DeleteKeys == {KeyA}
DeleteHosts == {HostA, HostZ}
\* ids of entries the side panel listed, the listing being stale or not
EntryIds ==
    { EntryId(KeyA[1], KeyA[2], KeyA[3], i) : i \in {0, 9} }

\* ids the side panel may hand to deleteEntryById: of the second of three versions, of
\* the only version of a field, of the first version of the field with '|' in its
\* selector (also the id listed for the field with '|' in its path), and four that
\* stand for no version: no number, a negative one, one past the end, no selector
ListedIds ==
    {EntryId(HostA, PathRoot, SelF, 1), EntryId(HostB, PathRoot, SelF, 0),
     EntryId(HostA, PathX, SelYF, 0)}
MalformedIds ==
    {HostA \o Bar \o PathRoot \o Bar \o SelF \o Bar \o <<"x">>,
     HostA \o Bar \o PathRoot \o Bar \o SelF \o Bar \o <<"-", "1">>,
     HostA \o Bar \o PathRoot \o Bar \o SelF \o Bar \o <<"7">>,
     HostA \o Bar \o PathRoot}

\* the steps of a saveFieldData call, whoever made it
SaveSteps ==
    \/ \E t \in tasks : EssStats(t)
    \/ \E t \in tasks : EssGet(t)
    \/ \E t \in tasks : EssRestat(t)
    \/ \E t \in tasks : EssSet(t)
    \/ \E t \in tasks : SfdGet(t)
    \/ \E t \in tasks : SfdSet(t)

Deletions ==
    \/ \E k \in DeleteKeys : DeleteFieldGet(k)
    \/ \E t \in tasks : DeleteFieldSet(t)
    \/ \E h \in DeleteHosts : DeleteDomainGet(h)
    \/ \E t \in tasks : DeleteDomainSet(t)
    \/ \E id \in EntryIds : DeleteEntryGet(id)
    \/ \E t \in tasks : DeleteEntrySet(t)
    \/ ClearData

Worker(keys) ==
    \/ \E k \in keys, label \in Labels, value \in Texts : HandleMessage(k, label, value)
    \/ \E fk \in DOMAIN throttledSavers : TimerFires(fk)
    \/ \E t \in tasks : PiGet(t)

\* The extension: the worker fed by the capture layer, the side panel deleting
Next == Worker(SubmitKeys) \/ Tick \/ SaveSteps \/ Deletions

Spec == Init /\ [][Next]_vars

\* storage.js under any caller of its exported functions
NextStore ==
    \/ \E k \in SubmitKeys, label \in Labels, value \in Texts, sig \in BOOLEAN :
          SaveFieldDataCall(k, label, value, sig)
    \/ SaveSteps
    \/ Deletions

SpecStore == Init /\ [][NextStore]_vars

\* The worker alone, fed the input of one field, on a store far below the quota: no
\* pass of ensureStorageSpace gets past its first getStorageStats
InitWorker == Init /\ blob \in {EmptyMap, StoreFull}

NextWorker ==
    \/ Worker({KeyA})
    \/ Tick
    \/ \E t \in tasks : EssStats(t)
    \/ \E t \in tasks : SfdGet(t)
    \/ \E t \in tasks : SfdSet(t)

SpecWorker == InitWorker /\ [][NextWorker]_vars

\* saveFieldData called on stores at the eviction threshold
InitEvict ==
    /\ blob \in EvictStores
    /\ throttledSavers = EmptyMap
    /\ tasks = {}
    /\ now = StartMs
    /\ nsub = 0
    /\ ncalls = 0
    /\ lastSubmit = EmptyMap
    /\ ran = EmptyMap
    /\ lastOp = Done("none", NoTask)
    /\ errorLog = {}

NextEvict ==
    \/ \E label \in Labels : SaveFieldDataCall(KeyB, label, TextA, TRUE)
    \/ SaveSteps

SpecEvict == InitEvict /\ [][NextEvict]_vars

\* saveFieldData called on stores at the eviction threshold while the side panel
\* clears all data
NextQuota ==
    \/ \E label \in Labels : SaveFieldDataCall(KeyB, label, TextA, TRUE)
    \/ SaveSteps
    \/ ClearData

SpecQuota == InitEvict /\ [][NextQuota]_vars

\* saveFieldData called on stores at the eviction threshold by a caller that awaits
\* each call before the next: no call is made while another is in flight
NextSerial ==
    \/ /\ tasks = {}
       /\ \E sig \in BOOLEAN : SaveFieldDataCall(KeyB, <<"L">>, TextA, sig)
    \/ SaveSteps

SpecSerial == InitEvict /\ [][NextSerial]_vars

\* The side panel listing and deleting entries while fields with '|' in their keys
\* are saved, on stores far below the quota
InitEntries ==
    /\ blob \in EntryStores
    /\ throttledSavers = EmptyMap
    /\ tasks = {}
    /\ now = StartMs
    /\ nsub = 0
    /\ ncalls = 0
    /\ lastSubmit = EmptyMap
    /\ ran = EmptyMap
    /\ lastOp = Done("none", NoTask)
    /\ errorLog = {}

NextEntries ==
    \/ \E k \in {KeyS, KeyP}, label \in Labels : SaveFieldDataCall(k, label, TextA, TRUE)
    \/ \E t \in tasks : EssStats(t)
    \/ \E t \in tasks : SfdGet(t)
    \/ \E t \in tasks : SfdSet(t)
    \/ \E id \in ListedIds \cup MalformedIds : DeleteEntryGet(id)
    \/ \E t \in tasks : DeleteEntrySet(t)

SpecEntries == InitEntries /\ [][NextEntries]_vars

\* The side panel deleting fields and sites of a store of two sites
InitDelete ==
    /\ blob = StoreTree
    /\ throttledSavers = EmptyMap
    /\ tasks = {}
    /\ now = StartMs
    /\ nsub = 0
    /\ ncalls = 0
    /\ lastSubmit = EmptyMap
    /\ ran = EmptyMap
    /\ lastOp = Done("none", NoTask)
    /\ errorLog = {}

NextDelete ==
    \/ \E k \in TreeKeys : DeleteFieldGet(k)
    \/ \E t \in tasks : DeleteFieldSet(t)
    \/ \E h \in Hosts : DeleteDomainGet(h)
    \/ \E t \in tasks : DeleteDomainSet(t)

SpecDelete == InitDelete /\ [][NextDelete]_vars

\* ids of entries that a listing taken earlier showed: of a field that is not stored
\* (any more), of the version after the last and of one far beyond it, and of the only
\* version of a field
StaleIds ==
    {EntryId(HostZ, PathRoot, SelF, 0), EntryId(HostA, PathRoot, SelF, 2),
     EntryId(HostA, PathRoot, SelF, 7), EntryId(HostB, PathRoot, SelF, 0)}

\* The side panel deleting fields, sites and entries, stored or not
NextNotFound ==
    \/ \E k \in TreeKeys : DeleteFieldGet(k)
    \/ \E t \in tasks : DeleteFieldSet(t)
    \/ \E h \in Hosts : DeleteDomainGet(h)
    \/ \E t \in tasks : DeleteDomainSet(t)
    \/ \E id \in StaleIds : DeleteEntryGet(id)
    \/ \E t \in tasks : DeleteEntrySet(t)

SpecNotFound == InitDelete /\ [][NextNotFound]_vars

\* state.allEntries of the side panel: the listing loaded when the panel opened on the
\* store of ten versions; the reload after a change of the store has not finished yet
allEntries == getAllEntriesFlat(StoreFull)

\* The side panel deleting entries of the listing it shows while the field is saved
InitListed ==
    /\ blob = StoreFull
    /\ throttledSavers = EmptyMap
    /\ tasks = {}
    /\ now = StartMs
    /\ nsub = 0
    /\ ncalls = 0
    /\ lastSubmit = EmptyMap
    /\ ran = EmptyMap
    /\ lastOp = Done("none", NoTask)
    /\ errorLog = {}

NextListed ==
    \/ \E value \in Texts, sig \in BOOLEAN : SaveFieldDataCall(KeyA, <<"L">>, value, sig)
    \/ \E t \in tasks : EssStats(t)
    \/ \E t \in tasks : SfdGet(t)
    \/ \E t \in tasks : SfdSet(t)
    \/ \E i \in 1..Len(allEntries) : DeleteEntryGet(allEntries[i].id)
    \/ \E t \in tasks : DeleteEntrySet(t)

SpecListed == InitListed /\ [][NextListed]_vars

\* The worker fed the input of two fields with '::' in their keys, nothing stored
InitKeys == Init /\ blob = EmptyMap

NextKeys ==
    \/ \E k \in {KeyC, KeyD} : HandleMessage(k, <<"L">>, TextA)
    \/ \E fk \in DOMAIN throttledSavers : TimerFires(fk)
    \/ \E t \in tasks : PiGet(t)
    \/ Tick
    \/ \E t \in tasks : EssStats(t)
    \/ \E t \in tasks : SfdGet(t)
    \/ \E t \in tasks : SfdSet(t)

SpecKeys == InitKeys /\ [][NextKeys]_vars

\* saveFieldData called for two fields with and without a label
InitLabel == InitEntries

NextLabel ==
    \/ \E k \in {KeyA, KeyS}, label \in AnyLabels, sig \in BOOLEAN :
          SaveFieldDataCall(k, label, TextA, sig)
    \/ \E t \in tasks : EssStats(t)
    \/ \E t \in tasks : SfdGet(t)
    \/ \E t \in tasks : SfdSet(t)

SpecLabel == InitLabel /\ [][NextLabel]_vars

\* The worker fed the input of one field while calls to chrome.storage may fail
InitFail == Init /\ blob = EmptyMap

NextFail ==
    \/ \E value \in {TextA, TextB} : HandleMessage(KeyA, <<"L">>, value)
    \/ \E fk \in DOMAIN throttledSavers : TimerFires(fk)
    \/ \E t \in tasks : PiGet(t)
    \/ Tick
    \/ \E t \in tasks : EssStats(t)
    \/ \E t \in tasks : SfdGet(t)
    \/ \E t \in tasks : SfdSet(t)
    \/ \E t \in tasks : StorageFails(t)

SpecFail == InitFail /\ [][NextFail]_vars

-----------------------------------------------------------------------------
(* Properties *)

\* saveFieldData's write lands in this step
SaveLands(t) == t \in tasks /\ t.pc = "sfd_set" /\ t \notin tasks'

VersionsOf(data, k) == RecOf(data, k).versions
LastOf(vs) == vs[Len(vs)]

\* C1: when the saves of two different keys overlap, both updates are in the store
\* after both have completed: the write of a save leaves the record that the save of
\* another key has just written as it is.
C1_NoLostUpdate ==
    [][\A t \in tasks :
          (/\ SaveLands(t)
           /\ lastOp.kind = "save"
           /\ KeyOf(lastOp.task.payload) # KeyOf(t.payload)
           /\ KeyOf(lastOp.task.payload) \in FieldsOf(blob))
          => /\ KeyOf(lastOp.task.payload) \in FieldsOf(blob')
             /\ RecOf(blob', KeyOf(lastOp.task.payload))
                    = RecOf(blob, KeyOf(lastOp.task.payload))]_vars

\* C2: every stored field has at most MAX_VERSIONS_PER_FIELD (10) versions, in every
\* state of the store, whatever saves, deletions and evictions interleave.
C2_VersionCap ==
    \A k \in FieldsOf(blob) : Len(VersionsOf(blob, k)) <= 10

\* a significant save onto a field that already held ten versions has just landed
C2_Witness ==
    /\ lastOp.kind = "save"
    /\ lastOp.task.sig
    /\ lastOp.prev # <<>>
    /\ Len(lastOp.prev[1].versions) = 10
    /\ HasField(blob, lastOp.task.payload.host, lastOp.task.payload.path,
                lastOp.task.payload.selector)
    /\ Len(VersionsOf(blob, KeyOf(lastOp.task.payload))) = 10


\* the addressed field of a call, in the store and in the data the call read
Stored(t) == getFieldData(blob, t.payload.host, t.payload.path, t.payload.selector)
Read(t) == getFieldData(t.data, t.payload.host, t.payload.path, t.payload.selector)
Written(t) == VersionsOf(blob', KeyOf(t.payload))
NewVersion(t) == Version(t.payload.timestamp, t.payload.value)

\* vs with v appended and the oldest dropped beyond ten
Appended(vs, new, v) ==
    /\ Len(new) = Min2(Len(vs) + 1, 10)
    /\ LastOf(new) = v
    /\ \A i \in 1..(Len(new) - 1) : new[i] = vs[i + Len(vs) + 1 - Len(new)]

\* vs with the last version replaced by v
Amended(vs, new, v) ==
    /\ Len(new) = Len(vs)
    /\ LastOf(new) = v
    /\ \A i \in 1..(Len(new) - 1) : new[i] = vs[i]

\* C3: a run of processInput for a field whose last version has text A (when the run
\* reads it and until its write), with text B, leaves one more version (at most ten)
\* with B last when levenshtein(A, B) >= 10, and the same versions with only the last
\* one replaced by B and its timestamp when the distance is below 10.
C3_AppendOrAmend ==
    [][\A t \in tasks :
          (/\ SaveLands(t)
           /\ t.op = "processInput"
           /\ Stored(t) # <<>>
           /\ t.existingData = Stored(t)
           /\ Read(t) = Stored(t))
          => LET vs == Stored(t)[1].versions
             IN  IF levenshtein(LastOf(vs).text, t.payload.value) >= 10
                 THEN Appended(vs, Written(t), NewVersion(t))
                 ELSE Amended(vs, Written(t), NewVersion(t))]_vars

\* after a text at distance exactly 10 was appended to the ten stored versions, a text
\* at distance 9 from it has replaced it
C3_Witness ==
    /\ lastOp.kind = "save"
    /\ lastOp.task.op = "processInput"
    /\ lastOp.prev # <<>>
    /\ levenshtein(LastOf(lastOp.prev[1].versions).text, lastOp.task.payload.value) = 9
    /\ levenshtein(FullVersions[10].text, LastOf(lastOp.prev[1].versions).text) = 10
    /\ KeyA \in FieldsOf(blob)
    /\ Len(VersionsOf(blob, KeyA)) = 10
    /\ VersionsOf(blob, KeyA)[9] = FullVersions[10]
    /\ LastOf(VersionsOf(blob, KeyA)).text = lastOp.task.payload.value

\* C4: a significant save onto a field that holds ten versions drops exactly the
\* oldest one: versions 2..10 move down in their order and the new version is last;
\* on the ten versions saved first, the eleventh save leaves the 2nd to the 11th.
C4_OldestDropped ==
    [][\A t \in tasks :
          (SaveLands(t) /\ t.sig /\ Read(t) # <<>> /\ Len(Read(t)[1].versions) = 10)
          => /\ Len(Written(t)) = 10
             /\ Written(t)[10] = NewVersion(t)
             /\ \A i \in 1..9 : Written(t)[i] = Read(t)[1].versions[i + 1]]_vars

\* the eleventh significant save has landed on the ten stored versions
C4_Witness ==
    /\ lastOp.kind = "save"
    /\ lastOp.task.sig
    /\ lastOp.prev # <<>>
    /\ lastOp.prev[1].versions = FullVersions
    /\ KeyA \in FieldsOf(blob)
    /\ VersionsOf(blob, KeyA) = Tail(FullVersions) \o <<NewVersion(lastOp.task)>>

\* C5: a save for a key that has no record (or a record without versions) in the data
\* it read writes a record with exactly one version, the text and timestamp of the
\* save, whatever the flag.
C5_FirstWrite ==
    [][\A t \in tasks :
          (SaveLands(t) /\ (Read(t) = <<>> \/ Len(Read(t)[1].versions) = 0))
          => /\ KeyOf(t.payload) \in FieldsOf(blob')
             /\ Written(t) = <<NewVersion(t)>>]_vars

\* a save flagged not significant has created a record
C5_Witness ==
    /\ lastOp.kind = "save"
    /\ ~lastOp.task.sig
    /\ lastOp.prev = <<>>
    /\ KeyOf(lastOp.task.payload) \in FieldsOf(blob)
    /\ VersionsOf(blob, KeyOf(lastOp.task.payload)) = <<NewVersion(lastOp.task)>>

\* C6: in every state of the store, a field with versions has lastUpdated equal to
\* the timestamp of its last version.
C6_LastUpdated ==
    \A k \in FieldsOf(blob) :
        VersionsOf(blob, k) # <<>> => RecOf(blob, k).lastUpdated = LastOf(VersionsOf(blob, k)).ts

\* deleteEntryById has removed the last of ten versions, the ninth is now the latest
C6_Witness ==
    /\ lastOp.kind = "deleteEntry"
    /\ lastOp.prev # <<>>
    /\ lastOp.prev[1].versions = FullVersions
    /\ KeyA \in FieldsOf(blob)
    /\ VersionsOf(blob, KeyA) = SubSeq(FullVersions, 1, 9)
    /\ RecOf(blob, KeyA).lastUpdated = FullVersions[9].ts

FkA == getFieldKey(KeyA[1], KeyA[2], KeyA[3])
Runs(fk) == IF fk \in DOMAIN ran THEN ran[fk] ELSE <<>>
RunStarts(fk) == Len(Runs(fk)') > Len(Runs(fk))
Waiting(fk) == throttledSavers[fk].lastArgs

\* C7: at no time are two runs of processInput for the same key in flight.
C7_OneRunPerKey ==
    \A t, u \in tasks :
        (/\ t.op = "processInput"
         /\ u.op = "processInput"
         /\ FieldKeyOf(t.payload) = FieldKeyOf(u.payload))
        => t = u

\* C8 as stated: a run that starts while a payload submitted within THROTTLE_MS of the
\* run before is waiting carries that payload.
C8_LastOfWindow ==
    [][\A fk \in DOMAIN ran :
          (/\ RunStarts(fk)
           /\ Waiting(fk) # <<>>
           /\ Waiting(fk)[1].timestamp < LastOf(ran[fk]).at + THROTTLE_MS)
          => LastOf(ran'[fk]).seq = Waiting(fk)[1].seq]_vars

\* C8: a payload submitted after a run waits with the timer armed, and the timer
\* callback starts one run for it, THROTTLE_MS or more after the run before; a run
\* carries the last payload submitted before it starts (a payload that arrives when
\* the interval is over and the callback has not run yet replaces the one waiting),
\* and a later payload than every run before it, so that no payload runs twice, none
\* runs out of submission order and the ones in between never run.
C8_Trailing ==
    [][\A fk \in DOMAIN throttledSavers' :
          /\ throttledSavers'[fk].lastArgs # <<>> => throttledSavers'[fk].timerId # <<>>
          /\ (/\ fk \in DOMAIN throttledSavers
              /\ throttledSavers'[fk] # throttledSavers[fk]
              /\ nsub' = nsub
              /\ Waiting(fk) # <<>>)
             => /\ RunStarts(fk)
                /\ Runs(fk) # <<>> => now >= LastOf(Runs(fk)).at + THROTTLE_MS
          /\ RunStarts(fk)
             => /\ Len(Runs(fk)') = Len(Runs(fk)) + 1
                /\ LastOf(Runs(fk)').seq = lastSubmit'[fk].seq
                /\ Runs(fk) # <<>> => LastOf(Runs(fk)').seq > LastOf(Runs(fk)).seq]_vars

\* three submits in one interval: the first ran at once, the third when the interval
\* was over, the second never
C8_Witness ==
    /\ nsub = 3
    /\ FkA \in DOMAIN ran
    /\ Len(ran[FkA]) = 2
    /\ ran[FkA][1].seq = 1
    /\ ran[FkA][2].seq = 3
    /\ lastSubmit[FkA].timestamp < ran[FkA][1].at + THROTTLE_MS
    /\ ran[FkA][2].at >= ran[FkA][1].at + THROTTLE_MS
    /\ throttledSavers[FkA].lastArgs = <<>>

\* C9: a submit for a key that has no saver yet, or whose last submit is THROTTLE_MS
\* or more ago, starts a run of processInput with its payload in the same step.
C9_Leading ==
    [][\A fk \in DOMAIN lastSubmit' :
          (/\ nsub' = nsub + 1
           /\ lastSubmit'[fk].seq = nsub'
           /\ \/ fk \notin DOMAIN throttledSavers
              \/ now - lastSubmit[fk].timestamp >= THROTTLE_MS)
          => /\ now' = now
             /\ RunStarts(fk)
             /\ LastOf(ran'[fk]) = [seq |-> nsub', at |-> now]
             /\ \E t \in tasks' \ tasks :
                   t.op = "processInput" /\ t.pc = "pi_get" /\ t.payload = lastSubmit'[fk]]_vars

\* the second submit came THROTTLE_MS or more after the first and ran when it came
C9_Witness ==
    /\ nsub = 2
    /\ FkA \in DOMAIN ran
    /\ Len(ran[FkA]) = 2
    /\ ran[FkA][1].seq = 1
    /\ ran[FkA][2].seq = 2
    /\ ran[FkA][2].at = lastSubmit[FkA].timestamp
    /\ ran[FkA][2].at >= ran[FkA][1].at + THROTTLE_MS

\* C10: when no run is in flight, no payload is waiting and no timer is armed (from
\* there on nothing writes the key until the next submit), the latest version of a
\* submitted key holds the text of the last payload submitted.
C10_Flushed ==
    (/\ tasks = {}
     /\ FkA \in DOMAIN lastSubmit
     /\ throttledSavers[FkA].lastArgs = <<>>
     /\ throttledSavers[FkA].timerId = <<>>)
    => /\ KeyA \in FieldsOf(blob)
       /\ LastOf(VersionsOf(blob, KeyA)).text = lastSubmit[FkA].value


\* t is the only call made so far
Alone(t) == ncalls = 1 /\ tasks = {t}

\* the task that t has become in this step
After(t) == CHOOSE u \in tasks' : u.n = t.n
\* a pass of the loop of ensureStorageSpace deletes a host from scanned in this step
Evicts(t) ==
    /\ t \in tasks
    /\ t.pc \in {"ess_get", "ess_restat"}
    /\ t \notin tasks'
    /\ After(t).evicted = t.evicted + 1
Scanned(t) == IF t.pc = "ess_get" THEN blob ELSE t.data
LastUpdatedOf(data, k) == RecOf(data, k).lastUpdated

\* C11: a pass of ensureStorageSpace that started at 90 % or more has, when it writes
\* and returns, brought the usage below 90 % or evicted exactly 10 hosts.
C11_Headroom ==
    [][\A t \in tasks :
          (t.pc = "ess_set" /\ t \notin tasks' /\ ~BelowMargin(t.stats))
          => \/ BelowMargin(getBytesInUse(blob'))
             \/ t.evicted = 10]_vars

\* C12: a pass of ensureStorageSpace (of the only call made) deletes a further host
\* only while what it has kept so far is at 90 % or more.
C12_StopsBelowMargin ==
    [][\A t \in tasks :
          (Evicts(t) /\ t.pc = "ess_restat" /\ Alone(t))
          => ~BelowMargin(getBytesInUse(t.data))]_vars

Listing == getAllEntriesFlat(blob)
\* the entry stands for the version at versionIndex of the field k of the store
StandsFor(e, k, versionIndex) ==
    /\ k \in FieldsOf(blob)
    /\ versionIndex \in 0..(Len(VersionsOf(blob, k)) - 1)
    /\ e.host = k[1] /\ e.path = k[2] /\ e.selector = k[3]
    /\ e.timestamp = VersionsOf(blob, k)[versionIndex + 1].ts
    /\ e.text = VersionsOf(blob, k)[versionIndex + 1].text
    /\ e.id = EntryId(k[1], k[2], k[3], versionIndex)

\* C14: parseEntryId gives back, for the id of every entry of every listing, the host,
\* path, selector and version index that the entry was made from.
C14_RoundTrip ==
    LET entries == Listing
    IN  \A i \in 1..Len(entries) : \A k \in FieldsOf(blob) :
            \A versionIndex \in 0..(Len(VersionsOf(blob, k)) - 1) :
                StandsFor(entries[i], k, versionIndex)
                => parseEntryId(entries[i].id) =
                      [host |-> k[1], path |-> k[2], selector |-> k[3],
                       versionIndex |-> <<versionIndex>>]

\* C15: a version that is in the store before and after a step is listed under the
\* same id before and after it.
C15_StableIds ==
    [][LET before == Listing
           after  == getAllEntriesFlat(blob')
       IN  \A i \in 1..Len(before) : \A j \in 1..Len(after) :
              (/\ before[i].host = after[j].host
               /\ before[i].path = after[j].path
               /\ before[i].selector = after[j].selector
               /\ before[i].timestamp = after[j].timestamp
               /\ before[i].text = after[j].text)
              => before[i].id = after[j].id]_vars

\* C16: no two entries of a listing carry the same id.
C16_UniqueIds ==
    LET entries == Listing
    IN  \A i, j \in 1..Len(entries) : i # j => entries[i].id # entries[j].id

\* C17: every listing is in non-increasing order of timestamp and holds one entry for
\* every stored version.
C17_SortedListing ==
    LET entries == Listing
    IN  /\ \A i, j \in 1..Len(entries) :
              i < j => entries[i].timestamp >= entries[j].timestamp
        /\ \A k \in FieldsOf(blob) :
              \A versionIndex \in 0..(Len(VersionsOf(blob, k)) - 1) :
                 \E i \in 1..Len(entries) : StandsFor(entries[i], k, versionIndex)
        /\ Len(entries) = Len(EntriesOf(blob, FieldOrder(blob)))

\* seven versions of four fields, saved in turn, are listed newest first: the order of
\* the listing is not the order of the visit
C17_Witness ==
    LET entries == Listing
    IN  /\ Len(entries) = 7
        /\ entries[1].timestamp > entries[2].timestamp
        /\ entries[1].path = PathXY
        /\ entries[2].path = PathRoot /\ entries[2].host = HostA
        /\ entries[3].selector = SelYF
        /\ entries[4].path = PathRoot /\ entries[4].host = HostA
        /\ entries[5].selector = SelYF
        /\ entries[7].host = HostB
        /\ EntriesOf(blob, FieldOrder(blob)) # entries


\* deleteEntryById writes in this step
DeleteLands(t) == t \in tasks /\ t.pc = "de_set" /\ t \notin tasks'
IdKey(id) == <<parseEntryId(id).host, parseEntryId(id).path, parseEntryId(id).selector>>
\* id decodes to a version of data
Decodes(data, id) ==
    /\ IdKey(id) \in FieldsOf(data)
    /\ parseEntryId(id).versionIndex # <<>>
    /\ parseEntryId(id).versionIndex[1] >= 0
    /\ parseEntryId(id).versionIndex[1] < Len(VersionsOf(data, IdKey(id)))
\* vs without the version at the 0-based index
Without(vs, index) == [j \in 1..(Len(vs) - 1) |-> vs[IF j <= index THEN j ELSE j + 1]]

\* C18: deleteEntryById with an id that decodes to a version of the data it read
\* writes these data with that version taken out of its field, the other versions in
\* their order and lastUpdated the timestamp of the last of them, or without the
\* field when it was its only version; every other field is written as read.
C18_DeleteEntry ==
    [][\A t \in tasks :
          (DeleteLands(t) /\ Decodes(t.data, t.id))
          => LET k    == IdKey(t.id)
                 old  == RecOf(t.data, k)
                 kept == Without(old.versions, parseEntryId(t.id).versionIndex[1])
             IN  /\ FieldsOf(blob') =
                       (FieldsOf(t.data) \ {k}) \cup (IF kept = <<>> THEN {} ELSE {k})
                 /\ \A j \in FieldsOf(t.data) \ {k} : RecOf(blob', j) = RecOf(t.data, j)
                 /\ kept # <<>>
                    => RecOf(blob', k) = [old EXCEPT !.versions = kept,
                                                     !.lastUpdated = LastOf(kept).ts]]_vars

\* the second of the three versions of a field has been deleted
C18_Witness ==
    /\ lastOp.kind = "deleteEntry"
    /\ lastOp.task.id = EntryId(HostA, PathRoot, SelF, 1)
    /\ lastOp.prev # <<>>
    /\ Len(lastOp.prev[1].versions) = 3
    /\ KeyA \in FieldsOf(blob)
    /\ VersionsOf(blob, KeyA) = <<lastOp.prev[1].versions[1], lastOp.prev[1].versions[3]>>
    /\ RecOf(blob, KeyA).lastUpdated = lastOp.prev[1].versions[3].ts
    /\ KeyB \in FieldsOf(blob)

\* C19: in every state of the store every host holds a path and every path a field.
C19_NoEmptyContainers ==
    \A h \in DOMAIN blob :
        /\ DOMAIN blob[h] # {}
        /\ \A p \in DOMAIN blob[h] : DOMAIN blob[h][p] # {}

\* the only version of the only field of a host has been deleted, and the host is gone
C19_Witness ==
    /\ lastOp.kind = "deleteEntry"
    /\ lastOp.prev # <<>>
    /\ Len(lastOp.prev[1].versions) = 1
    /\ HostA \notin DOMAIN blob
    /\ blob = EmptyMap

\* C20: deleteEntryById with an id that decodes to no version of the data it read
\* (no number, a negative or too large index) leaves the store as it read it.
C20_MalformedRejected ==
    [][\A t \in tasks :
          (DeleteLands(t) /\ ~Decodes(t.data, t.id)) => blob' = t.data]_vars


\* a deletion: deleteField, deleteDomain, deleteEntryById or Clear All Data
Deletes == {"deleteField", "deleteDomain", "deleteEntry", "clear"}
\* a call made before the call of the last operation writes the blob in this step
EarlierWrites(t) ==
    /\ t \in tasks
    /\ t.pc \in {"sfd_set", "ess_set"}
    /\ t \notin tasks'
    /\ t.n < lastOp.task.n
\* what the last operation, a deletion, removed
Removed ==
    IF lastOp.kind = "deleteEntry" THEN IdKey(lastOp.task.id)
    ELSE KeyOf(lastOp.task.payload)
\* t is a save for the field, or for a field of the host, that the deletion addressed
SavesRemoved(t) ==
    /\ t.pc = "sfd_set"
    /\ IF lastOp.kind = "deleteDomain" THEN t.payload.host = Removed[1]
       ELSE KeyOf(t.payload) = Removed
\* what the last operation, a deletion, removed is not in data
Gone(data) ==
    CASE lastOp.kind = "deleteField" -> Removed \notin FieldsOf(data)
      [] lastOp.kind = "deleteDomain" -> Removed[1] \notin DOMAIN data
      [] lastOp.kind = "clear" -> FieldsOf(data) = {}
      [] lastOp.kind = "deleteEntry" ->
            \/ Removed \notin FieldsOf(data)
            \/ Len(VersionsOf(data, Removed)) < Len(lastOp.prev[1].versions)

\* C21: what a deletion has removed (a field, a host, a version, or everything) is not
\* brought back by the write of an eviction pass, or of a save for another field, that
\* was called before the deletion: after that write the field or host is still absent,
\* the field still has fewer versions, and after Clear All Data the store holds at most
\* the one version that the save adds.
C21_StaysDeleted ==
    [][\A t \in tasks :
          (EarlierWrites(t) /\ lastOp.kind \in Deletes /\ Gone(blob))
          => IF lastOp.kind = "clear"
             THEN \/ blob' = EmptyMap
                  \/ /\ t.pc = "sfd_set"
                     /\ FieldsOf(blob') = {KeyOf(t.payload)}
                     /\ Written(t) = <<NewVersion(t)>>
             ELSE SavesRemoved(t) \/ Gone(blob')]_vars


\* the catch of processInput handles a rejection in this step
Caught(t) == t \in tasks /\ t \notin tasks' /\ t.payload.seq \in errorLog' \ errorLog

\* C22: a storage failure in a run of processInput ends that run and nothing else: the
\* savers, the other runs and the store are as before. Once a run has failed, a submit
\* that comes THROTTLE_MS or more after the submit before it still starts a run with
\* its payload at once, and the write of a run still leaves the payload's text and
\* timestamp as the latest version of the field.
C22_NotWedged ==
    [][/\ \A t \in tasks :
             Caught(t) => /\ throttledSavers' = throttledSavers
                          /\ tasks' = tasks \ {t}
                          /\ blob' = blob
       /\ \A fk \in DOMAIN lastSubmit :
             (/\ errorLog # {}
              /\ nsub' = nsub + 1
              /\ lastSubmit'[fk].seq = nsub'
              /\ now - lastSubmit[fk].timestamp >= THROTTLE_MS)
             => \E t \in tasks' \ tasks :
                   t.op = "processInput" /\ t.pc = "pi_get" /\ t.payload = lastSubmit'[fk]
       /\ \A t \in tasks :
             (SaveLands(t) /\ ~Caught(t) /\ errorLog # {})
             => /\ KeyOf(t.payload) \in FieldsOf(blob')
                /\ LastOf(Written(t)) = NewVersion(t)]_vars

\* the run of the first submit failed; the second submit came THROTTLE_MS later, ran at
\* once and its text is the only version stored
C22_Witness ==
    /\ errorLog = {1}
    /\ tasks = {}
    /\ lastOp.kind = "save"
    /\ lastOp.task.payload.seq = 2
    /\ lastOp.task.payload.timestamp >= StartMs + THROTTLE_MS
    /\ ran[FkA] = <<[seq |-> 1, at |-> StartMs],
                    [seq |-> 2, at |-> lastOp.task.payload.timestamp]>>
    /\ KeyA \in FieldsOf(blob)
    /\ VersionsOf(blob, KeyA) = <<NewVersion(lastOp.task)>>


\* C27: when the blob write of a save in a run of processInput fails, so that no
\* version is stored for the update, something that the store's functions answer from
\* (the blob) is different afterwards: the failure can be found out through the API.
C27_FailureObservable ==
    [][\A t \in tasks :
          (Caught(t) /\ t.pc = "sfd_set") => blob' # blob]_vars


\* deleteField, deleteDomain write in this step
DeleteFieldLands(t) == t \in tasks /\ t.pc = "df_set" /\ t \notin tasks'
DeleteDomainLands(t) == t \in tasks /\ t.pc = "dd_set" /\ t \notin tasks'
\* no host of data is without a path and no path without a field
Pruned(data) ==
    \A h \in DOMAIN data :
        /\ DOMAIN data[h] # {}
        /\ \A p \in DOMAIN data[h] : DOMAIN data[h][p] # {}

\* C23: deleteField for a field that is in the data it read writes these data without
\* that field, without its path when the path held no other field and without its host
\* when the host held no other path; every other field is written as it was read.
C23_DeleteField ==
    [][\A t \in tasks :
          DeleteFieldLands(t)
          => LET k == KeyOf(t.payload)
             IN  /\ k \in FieldsOf(t.data)
                 /\ FieldsOf(blob') = FieldsOf(t.data) \ {k}
                 /\ \A j \in FieldsOf(blob') : RecOf(blob', j) = RecOf(t.data, j)
                 /\ DOMAIN blob' = { j[1] : j \in FieldsOf(blob') }
                 /\ \A h \in DOMAIN blob' :
                       DOMAIN blob'[h] = { j[2] : j \in { i \in FieldsOf(blob') : i[1] = h } }
                 /\ Pruned(blob')]_vars

\* the only field of a page has been deleted: the page is gone, the site and its other
\* page with two fields are there, and so is the other site
C23_Witness ==
    /\ lastOp.kind = "deleteField"
    /\ KeyOf(lastOp.task.payload) = KeyX
    /\ lastOp.prev = <<RecOf(StoreTree, KeyX)>>
    /\ ncalls = 1
    /\ HostA \in DOMAIN blob
    /\ DOMAIN blob[HostA] = {PathRoot}
    /\ blob[HostA][PathRoot] = StoreTree[HostA][PathRoot]
    /\ blob[HostB] = StoreTree[HostB]

\* C24: deleteDomain for a host that is in the data it read writes these data without
\* that host, however many paths and fields it held, and with every other host as it
\* was read.
C24_DeleteDomain ==
    [][\A t \in tasks :
          DeleteDomainLands(t)
          => /\ t.payload.host \in DOMAIN t.data
             /\ DOMAIN blob' = DOMAIN t.data \ {t.payload.host}
             /\ \A g \in DOMAIN blob' : blob'[g] = t.data[g]
             /\ \A j \in FieldsOf(blob') : j[1] # t.payload.host]_vars

\* the site with two pages and three fields has been deleted, the other site is there
C24_Witness ==
    /\ lastOp.kind = "deleteDomain"
    /\ lastOp.task.payload.host = HostA
    /\ ncalls = 1
    /\ Cardinality({ j \in FieldsOf(StoreTree) : j[1] = HostA }) = 3
    /\ DOMAIN blob = {HostB}
    /\ blob[HostB] = StoreTree[HostB]


\* C25: the write of a save with a non-empty label leaves that label on the record;
\* the write of a save with an empty label leaves the label that the record had in the
\* data the save read, and an empty one on a record it creates. So the label is that
\* of the last save that supplied one.
C25_LabelRule ==
    [][\A t \in tasks :
          SaveLands(t)
          => /\ KeyOf(t.payload) \in FieldsOf(blob')
             /\ RecOf(blob', KeyOf(t.payload)).label =
                   IF t.payload.label # <<>> THEN t.payload.label
                   ELSE IF Read(t) # <<>> THEN Read(t)[1].label
                   ELSE <<>>]_vars

\* a field labelled L was saved with the label M and then without a label: it is
\* labelled M
C25_Witness ==
    /\ tasks = {}
    /\ ncalls = 2
    /\ lastOp.kind = "save"
    /\ lastOp.task.n = 2
    /\ KeyOf(lastOp.task.payload) = KeyA
    /\ lastOp.task.payload.label = <<>>
    /\ lastOp.prev # <<>>
    /\ lastOp.prev[1].label = <<"M">>
    /\ RecOf(StoreTurns, KeyA).label = <<"L">>
    /\ RecOf(blob, KeyA).label = <<"M">>


\* C26: the payload that waits in a saver for the trailing run is replaced only by a
\* later payload of the same key (host, path, selector): a submit for one key never
\* takes the place of the waiting payload of another key.
C26_Independent ==
    [][\A fk \in DOMAIN throttledSavers :
          (throttledSavers[fk].lastArgs # <<>> /\ throttledSavers'[fk].lastArgs # <<>>)
          => KeyOf(throttledSavers'[fk].lastArgs[1]) = KeyOf(throttledSavers[fk].lastArgs[1])]_vars


\* C28: of any three runs of processInput started for one key, the third starts
\* THROTTLE_MS or more after the first: no window of THROTTLE_MS (from a time T up
\* to, not including, T + 1000 ms) holds more than two starts.
C28_RateBound ==
    \A fk \in DOMAIN ran :
        \A i \in 1..(Len(ran[fk]) - 2) : ran[fk][i + 2].at - ran[fk][i].at >= THROTTLE_MS

\* two submits at once and a third one second later: a leading run, and after the
\* interval the trailing run and, in the same millisecond, the next leading run
C28_Witness ==
    /\ FkA \in DOMAIN ran
    /\ Len(ran[FkA]) = 3
    /\ ran[FkA][1].at = StartMs
    /\ ran[FkA][2].at = StartMs + THROTTLE_MS
    /\ ran[FkA][3].at = ran[FkA][2].at
    /\ ran[FkA][3].seq = 3
    /\ lastSubmit[FkA].timestamp = ran[FkA][3].at


\* C29: a call whose eviction pass has ended goes on to save: after the write of the
\* pass, and after a loop that ended without a write, saveFieldData reads the blob; and
\* when the store is still at 90 % or more at the write of such a save, the write
\* leaves the text and timestamp of the save as the latest version of its field. No
\* error is logged.
C29_WriteProceeds ==
    [][\A t \in tasks :
          /\ (t.pc = "ess_set" /\ t \notin tasks') => After(t).pc = "sfd_get"
          /\ (t.pc \in {"ess_get", "ess_restat"} /\ t \notin tasks')
             => After(t).pc \in {"ess_restat", "ess_set", "sfd_get"}
          /\ (SaveLands(t) /\ ~BelowMargin(t.stats) /\ ~BelowMargin(getBytesInUse(blob)))
             => /\ KeyOf(t.payload) \in FieldsOf(blob')
                /\ Written(t) # <<>>
                /\ LastOf(Written(t)) = NewVersion(t)
                /\ errorLog' = errorLog]_vars

\* a pass has evicted ten sites, the store was still at 90 % or more, and the text of
\* the save is stored
C29_Witness ==
    /\ lastOp.kind = "save"
    /\ lastOp.task.evicted = MAX_EVICTED
    /\ ncalls = 1
    /\ ~BelowMargin(getBytesInUse(blob))
    /\ ManyHost(MAX_EVICTED) \in DOMAIN blob
    /\ KeyOf(lastOp.task.payload) \in FieldsOf(blob)
    /\ VersionsOf(blob, KeyOf(lastOp.task.payload)) = <<NewVersion(lastOp.task)>>

\* C30: a call that reads a usage with bytesInUse * 100 < 90 * 5242880 goes on to save
\* without reading the blob for eviction, and a call that reads a usage at or above
\* that figure reads the blob and deletes a host from it when it holds one; only a call
\* that read a usage at or above the figure writes the blob of an eviction pass.
C30_TriggerBoundary ==
    [][\A t \in tasks :
          /\ (t.pc = "ess_stats" /\ t \notin tasks')
             => /\ After(t).pc = IF getBytesInUse(blob) * 100 < 90 * 5242880
                                 THEN "sfd_get" ELSE "ess_get"
                /\ After(t).evicted = 0
                /\ blob' = blob
          /\ (t.pc = "ess_get" /\ t \notin tasks' /\ FieldsOf(blob) # {})
             => /\ After(t).evicted = 1
                /\ Cardinality(DOMAIN After(t).data) = Cardinality(DOMAIN blob) - 1
          /\ (t.pc = "ess_set" /\ t \notin tasks')
             => t.stats * 100 >= 90 * 5242880]_vars

\* the first call read a usage 10 bytes below the figure, evicted nothing and stored
\* its 10 bytes; the second call read a usage of exactly the figure and has deleted a
\* host from its copy
C30_Witness ==
    /\ lastOp.kind = "save"
    /\ lastOp.task.n = 1
    /\ lastOp.task.stats * 100 < 90 * 5242880
    /\ lastOp.task.evicted = 0
    /\ DOMAIN blob = {HostZ, HostB}
    /\ \E t \in tasks :
          /\ t.n = 2
          /\ t.stats * 100 = 90 * 5242880
          /\ t.pc = "ess_restat"
          /\ t.evicted = 1

\* a step of the loop of ensureStorageSpace: from its getAllData or from the
\* getStorageStats inside the loop
LoopStep(t) == t \in tasks /\ t.pc \in {"ess_get", "ess_restat"} /\ t \notin tasks'

\* C31: a pass of ensureStorageSpace has deleted at most 10 hosts at any time, and it
\* ends: the loop comes to its next await only with one more host deleted, never once
\* 10 are deleted, and never when the data hold no field, whatever usage was read (an
\* empty store read after a usage of 90 % or more included).
C31_PassBounded ==
    [][\A t \in tasks :
          /\ t.evicted <= 10
          /\ LoopStep(t)
             => /\ After(t).evicted <= 10
                /\ After(t).pc \in {"ess_restat", "ess_set", "sfd_get"}
                /\ After(t).pc = "ess_restat"
                   => /\ After(t).evicted = t.evicted + 1
                      /\ FieldsOf(Scanned(t)) # {}
                /\ After(t).pc # "ess_restat" => After(t).evicted = t.evicted
                /\ t.evicted = 10 => After(t).pc = "ess_set"]_vars

\* a call read a usage of 90 % or more, all data were cleared, and the pass read the
\* empty store: it has ended without a deletion and without a write
C31_Witness ==
    /\ blob = EmptyMap
    /\ lastOp.kind = "clear"
    /\ \E t \in tasks :
          /\ t.pc = "sfd_get"
          /\ ~BelowMargin(t.stats)
          /\ t.evicted = 0

\* the id names an index past the last version of its field in data
PastEnd(data, id) ==
    /\ IdKey(id) \in FieldsOf(data)
    /\ parseEntryId(id).versionIndex # <<>>
    /\ parseEntryId(id).versionIndex[1] >= Len(VersionsOf(data, IdKey(id)))

\* C32: a deletion of what is not stored changes nothing and logs no error: a call of
\* deleteField, deleteDomain or deleteEntryById goes on to a write only when the
\* field, host or field of the id is in the data it read, the call itself leaves the
\* store as it is, and deleteEntryById with an index past the last version of the field
\* writes the data as it read them.
C32_NotFoundNoOp ==
    [][/\ \A u \in tasks' \ tasks :
             /\ u.op = "deleteField" => KeyOf(u.payload) \in FieldsOf(blob)
             /\ u.op = "deleteDomain" => u.payload.host \in DOMAIN blob
             /\ u.op = "deleteEntry" => IdKey(u.id) \in FieldsOf(blob)
       /\ ncalls' = ncalls + 1 => (blob' = blob /\ errorLog' = errorLog)
       /\ \A t \in tasks :
             (DeleteLands(t) /\ PastEnd(t.data, t.id))
             => (blob' = t.data /\ errorLog' = errorLog)]_vars

\* deleteEntryById with the index 2 for a field of two versions has written: the store
\* is as it was
C32_Witness ==
    /\ lastOp.kind = "deleteEntry"
    /\ lastOp.task.id = EntryId(HostA, PathRoot, SelF, 2)
    /\ lastOp.prev # <<>>
    /\ Len(lastOp.prev[1].versions) = 2
    /\ ncalls = 1
    /\ tasks = {}
    /\ blob = StoreTree

RECURSIVE VersionCount(_, _)
\* the number of versions that the fields ks of data hold together
VersionCount(data, ks) ==
    IF ks = {} THEN 0
    ELSE LET k == CHOOSE x \in ks : TRUE
         IN  Len(VersionsOf(data, k)) + VersionCount(data, ks \ {k})

\* every (field, index) of a stored version
StoredVersions ==
    UNION { { <<k, versionIndex>> : versionIndex \in 0..(Len(VersionsOf(blob, k)) - 1) }
            : k \in FieldsOf(blob) }

\* C33: the listing of a store holds as many entries as the fields hold versions
\* together; every stored version has exactly one entry that carries its host, path,
\* selector, timestamp and text, and every entry is the entry of exactly one stored
\* version.
C33_Projection ==
    LET entries == Listing
    IN  /\ Len(entries) = VersionCount(blob, FieldsOf(blob))
        /\ \A kv \in StoredVersions :
              Cardinality({ i \in 1..Len(entries) : StandsFor(entries[i], kv[1], kv[2]) }) = 1
        /\ \A i \in 1..Len(entries) :
              Cardinality({ kv \in StoredVersions : StandsFor(entries[i], kv[1], kv[2]) }) = 1

\* eight versions of four fields are listed as eight entries, two of them (of the field
\* with '|' in its path and the one with '|' in its selector) under one id
C33_Witness ==
    LET entries == Listing
    IN  /\ Cardinality(FieldsOf(blob)) = 4
        /\ {KeyS, KeyP} \subseteq FieldsOf(blob)
        /\ VersionCount(blob, FieldsOf(blob)) = 8
        /\ Len(entries) = 8
        /\ \E i, j \in 1..Len(entries) :
              /\ i # j
              /\ entries[i].id = entries[j].id
              /\ entries[i].path # entries[j].path

\* all but the last of a version list
Superseded(vs) == SubSeq(vs, 1, Len(vs) - 1)

\* C34: the write of a save leaves every version of the addressed field, other than
\* the last one it read, as it read it: the versions before the last one written are
\* the ones read before the last (last one rewritten), all the ones read (one appended)
\* or all but the first of them (one appended to ten); the records of all other fields
\* are written as they were read.
C34_SupersededImmutable ==
    [][\A t \in tasks :
          SaveLands(t)
          => LET k   == KeyOf(t.payload)
                 old == IF Read(t) = <<>> THEN <<>> ELSE Read(t)[1].versions
             IN  /\ FieldsOf(blob') = FieldsOf(t.data) \cup {k}
                 /\ \A j \in FieldsOf(t.data) \ {k} : RecOf(blob', j) = RecOf(t.data, j)
                 /\ Superseded(Written(t)) =
                       IF Len(Written(t)) = Len(old) + 1 THEN old
                       ELSE IF t.sig THEN Tail(old)
                       ELSE Superseded(old)]_vars

\* after a save for another field, a save flagged not significant has rewritten the
\* last of the ten versions: the nine before it and the other field are as they were
C34_Witness ==
    /\ lastOp.kind = "save"
    /\ ~lastOp.task.sig
    /\ KeyOf(lastOp.task.payload) = KeyA
    /\ lastOp.prev # <<>>
    /\ lastOp.prev[1].versions = FullVersions
    /\ KeyA \in FieldsOf(blob)
    /\ Superseded(VersionsOf(blob, KeyA)) = Superseded(FullVersions)
    /\ LastOf(VersionsOf(blob, KeyA)) = NewVersion(lastOp.task)
    /\ LastOf(VersionsOf(blob, KeyA)) # LastOf(FullVersions)
    /\ KeyB \in FieldsOf(blob)
    /\ Len(VersionsOf(blob, KeyB)) = 1

\* the versions of the field k of data, as a set
VersionSet(data, k) ==
    IF k \in FieldsOf(data) THEN { VersionsOf(data, k)[i] : i \in 1..Len(VersionsOf(data, k)) }
    ELSE {}
\* the versions that the listing of the side panel shows under id
ShownAs(id) ==
    { Version(allEntries[i].timestamp, allEntries[i].text) :
        i \in { j \in 1..Len(allEntries) : allEntries[j].id = id } }

\* C35: deleteEntryById with an id of the listing that the side panel shows removes,
\* from the field as it read it, no version other than the one that the listing shows
\* under that id, whatever was saved or deleted since the listing was loaded.
C35_ListedVersionHit ==
    [][\A t \in tasks :
          DeleteLands(t)
          => (VersionSet(t.data, IdKey(t.id)) \ VersionSet(blob', IdKey(t.id)))
                \subseteq ShownAs(t.id)]_vars

\* C36: when the write of a run of processInput rewrites the last version that the
\* save read, the text it replaces is at distance below 10 from the new text, and when
\* it appends to the versions that the save read, the last text of these is at distance
\* 10 or more, whatever was written between the read of processInput and the read of
\* saveFieldData.
C36_ClassifyAgrees ==
    [][\A t \in tasks :
          (/\ SaveLands(t)
           /\ t.op = "processInput"
           /\ Read(t) # <<>>
           /\ Len(Read(t)[1].versions) > 0)
          => LET vs == Read(t)[1].versions
                 distance == levenshtein(LastOf(vs).text, t.payload.value)
             IN  /\ Amended(vs, Written(t), NewVersion(t)) => distance < 10
                 /\ Appended(vs, Written(t), NewVersion(t)) => distance >= 10]_vars

\* C37: the write of a save leaves a record for its key whose last version has the
\* timestamp and text of the save; when the data that the save read hold no record of
\* the key (the eviction pass of this save has deleted its host, or it was never
\* stored), the record written has that version only.
C37_SavePostcondition ==
    [][\A t \in tasks :
          SaveLands(t)
          => /\ KeyOf(t.payload) \in FieldsOf(blob')
             /\ Written(t) # <<>>
             /\ LastOf(Written(t)) = NewVersion(t)
             /\ RecOf(blob', KeyOf(t.payload)).lastUpdated = t.payload.timestamp
             /\ Read(t) = <<>> => Written(t) = <<NewVersion(t)>>]_vars

\* the first call, for a field stored on one of three sites in a store at the
\* threshold: its pass has deleted all three sites, its own among them, and the field
\* is stored again with the one version of the save
C37_Witness ==
    /\ lastOp.kind = "save"
    /\ lastOp.task.n = 1
    /\ ncalls = 1
    /\ lastOp.task.evicted = 3
    /\ lastOp.prev = <<>>
    /\ KeyOf(lastOp.task.payload) = KeyB
    /\ KeyB \in FieldsOf(StoreSameAge) /\ KeyB \in FieldsOf(StoreBigOldest)
    /\ FieldsOf(blob) = {KeyB}
    /\ VersionsOf(blob, KeyB) = <<NewVersion(lastOp.task)>>

\* C38: in every state of the store every stored field has at least one version: a
\* save stores no record without a version, and deleteEntryById stores no record of a
\* field whose only version it removed.
C38_NoEmptyRecords ==
    \A k \in FieldsOf(blob) : Len(VersionsOf(blob, k)) >= 1

\* a field was saved for the first time and its only version has then been deleted:
\* no record of it is left
C38_Witness ==
    /\ lastOp.kind = "deleteEntry"
    /\ lastOp.task.n = 2
    /\ lastOp.task.id = EntryId(HostA, PathRoot, SelF, 0)
    /\ lastOp.prev # <<>>
    /\ Len(lastOp.prev[1].versions) = 1
    /\ lastOp.prev[1].versions[1].ts > StartMs
    /\ tasks = {}
    /\ KeyA \notin FieldsOf(blob)

\* the write of an eviction pass lands in this step
EvictLands(t) == t \in tasks /\ t.pc = "ess_set" /\ t \notin tasks'

====
